---- MODULE Spec2Model ----
(***************************************************************************)
(* Model of the booking store of hotel-room-booking-service                *)
(* (src/storage.rs, src/storage/room_booking.rs, src/main.rs).             *)
(*                                                                         *)
(* The state is the process-wide BOOKING_LIST (a Mutex around a HashMap),  *)
(* the snapshot file booking.dat, and the position of every request        *)
(* handler thread inside create / status / fetch_* / save_snapshot.        *)
(*                                                                         *)
(* Spec is one run of the process; SpecWrap is a run on a store whose      *)
(* greatest id is u32::MAX, in which load_snapshot may be called again;    *)
(* SpecCrash adds the end of the process and its next start.               *)
(***************************************************************************)
EXTENDS Integers, Sequences, FiniteSets

(***************************************************************************)
(* Bounds of the model.                                                    *)
(***************************************************************************)
\* create calls accepted for processing in one run
MaxCreates == 2
\* failed library calls (reading the file, serialize, File::create, write_all)
\* in one run
MaxFaults == 1
\* times the process is ended and started again
MaxRestarts == 1
\* load_snapshot calls made while requests are served
MaxLoads == 1

\* Request handler threads (Rocket workers calling into storage).
Threads == {"w1", "w2"}
NoThread == "none"

(***************************************************************************)
(* Option<T>: None is the empty sequence, Some(x) the one-element one.     *)
(***************************************************************************)
None == <<>>
Some(x) == <<x>>

\* enum BookingStatus, in declaration order (the order bincode numbers it).
BookingStatus == <<"Confirmed", "Complete", "Cancelled">>
Statuses == {BookingStatus[i] : i \in 1..Len(BookingStatus)}

(***************************************************************************)
(* u32.  TLC's integers end at 2^31 - 1, so a u32 is kept as its two       *)
(* 16-bit halves <<high, low>>; U32(n) is the u32 of a small number n.     *)
(***************************************************************************)
Half == 2^16

U32(n) == <<n \div Half, n % Half>>

\* u32::MAX = 4294967295
U32_MAX == <<Half - 1, Half - 1>>
\* std::u32::MIN
U32_MIN == U32(0)

\* a <= b on u32
LessEq(a, b) == a[1] < b[1] \/ (a[1] = b[1] /\ a[2] <= b[2])

\* a + 1 on u32 without overflow checks: u32::MAX + 1 wraps to 0.
WrappingSucc(a) ==
    IF a[2] + 1 < Half THEN <<a[1], a[2] + 1>> ELSE <<(a[1] + 1) % Half, 0>>

\* struct RoomBooking
RoomBooking(bid, cust, room, cin, cout, st) ==
    [booking_id |-> bid, customer_id |-> cust, room_type_id |-> room,
     check_in_date |-> cin, check_out_date |-> cout, status |-> st]

\* Variant: the id is not written into the booking.
set_booking_id_unset(booking, booking_id) == booking

\* RoomBooking::set_booking_id
set_booking_id(booking, booking_id) ==
    [booking EXCEPT !.booking_id = Some(booking_id)]

\* RoomBooking::set_status
set_status(booking, booking_status) ==
    [booking EXCEPT !.status = Some(booking_status)]

(***************************************************************************)
(* Inputs.  Dates are the opaque strings the handlers pass through.        *)
(***************************************************************************)
CheckOutDate == "2020-01-08"

\* Creation requests with neither server-owned field set.
FreshBookings ==
    { RoomBooking(None, U32(1), 3, "2020-01-01", CheckOutDate, None),
      RoomBooking(None, U32(4), 2, "2020-01-02", CheckOutDate, None) }

\* Creation requests that set booking_id and/or status themselves.
PresetBookings ==
    { RoomBooking(Some(U32(5)), U32(4), 2, "2020-01-01", CheckOutDate, None),
      RoomBooking(None, U32(4), 2, "2020-01-01", CheckOutDate, Some("Confirmed")) }

\* Arguments of the status and fetch requests: some match, some do not.
RequestIds == {U32(1), U32(2)}
RequestCustomers == {U32(1), U32(3)}
RequestRoomTypes == {3, 1}
RequestDates == {"2020-01-01", "2020-01-08"}

(***************************************************************************)
(* HashMap<u32, RoomBooking> as a function from its key set.               *)
(***************************************************************************)
EmptyMap == [k \in {} |-> k]

\* Variant: the map is left holding the inserted entry only.
InsertAlone(m, k, v) == [x \in {k} |-> v]

\* HashMap::insert
Insert(m, k, v) == [x \in (DOMAIN m) \cup {k} |-> IF x = k THEN v ELSE m[x]]

RECURSIVE Orders(_)
\* Orders in which a HashMap with key set S may be iterated: the order
\* depends on the hasher's random keys, so every arrangement of S.
Orders(S) ==
    IF S = {} THEN {<<>>}
    ELSE UNION {{<<k>> \o o : o \in Orders(S \ {k})} : k \in S}

\* booking_list.values() in iteration order o.
Values(m, o) == [i \in DOMAIN o |-> m[o[i]]]

\* u32::max
Max(a, b) == IF LessEq(b, a) THEN a ELSE b

RECURSIVE FoldMax(_, _, _)
\* booking_list.keys().fold(std::u32::MIN, |a, b| a.max(*b)) along order o.
FoldMax(o, i, a) ==
    IF i > Len(o) THEN a ELSE FoldMax(o, i + 1, Max(a, o[i]))

\* Variant: the greatest key among the bookings that are still Confirmed.
max_id_confirmed(m, o) ==
    FoldMax(SelectSeq(o, LAMBDA k : m[k].status = Some("Confirmed")), 1, U32_MIN)

max_id(m, o) == FoldMax(o, 1, U32_MIN)

(***************************************************************************)
(* bincode, as a sequence of tokens: a map is its length followed by       *)
(* (key, value) pairs in iteration order; a u32 is its low half then its   *)
(* high half (little-endian); a u8 is one token; an Option is a tag 0/1    *)
(* followed by the payload when the tag is 1; an enum is its zero-based    *)
(* variant index; a String is one token standing for its length-prefixed   *)
(* bytes.                                                                  *)
(***************************************************************************)
StrCode(s) ==
    CASE s = "2020-01-01" -> 20200101
      [] s = "2020-01-02" -> 20200102
      [] s = "2020-01-08" -> 20200108

StrCodes == {20200101, 20200102, 20200108}

StrDecode(c) ==
    CASE c = 20200101 -> "2020-01-01"
      [] c = 20200102 -> "2020-01-02"
      [] c = 20200108 -> "2020-01-08"

\* Variant: the variants are numbered from one.
VariantIndexFromOne(st) == CHOOSE i \in 1..Len(BookingStatus) : BookingStatus[i] = st

VariantIndex(st) == (CHOOSE i \in 1..Len(BookingStatus) : BookingStatus[i] = st) - 1

EncU32(x) == <<x[2], x[1]>>

EncOptionU32(o) == IF o = None THEN <<0>> ELSE <<1>> \o EncU32(o[1])

EncOptionStatus(o) == IF o = None THEN <<0>> ELSE <<1, VariantIndex(o[1])>>

\* Serialize for RoomBooking (derived): the fields in declaration order.
EncBooking(b) ==
    EncOptionU32(b.booking_id)
      \o EncU32(b.customer_id)
      \o <<b.room_type_id, StrCode(b.check_in_date), StrCode(b.check_out_date)>>
      \o EncOptionStatus(b.status)

RECURSIVE EncEntries(_, _, _)
EncEntries(m, o, i) ==
    IF i > Len(o) THEN <<>>
    ELSE EncU32(o[i]) \o EncBooking(m[o[i]]) \o EncEntries(m, o, i + 1)

\* bincode::serialize(&booking_list) when it returns Ok, iterating in order o.
serialize(m, o) == <<Len(o)>> \o EncEntries(m, o, 1)

\* Decoding results: ok, the decoded value, and the position after it.
Fail == [ok |-> FALSE, val |-> None, next |-> 0]
Done(v, n) == [ok |-> TRUE, val |-> v, next |-> n]

\* The u64 length of the map.
DecLen(s, p) == IF p > Len(s) THEN Fail ELSE Done(s[p], p + 1)

DecU8(s, p) == IF p > Len(s) THEN Fail ELSE Done(s[p], p + 1)

DecU32(s, p) == IF p + 1 > Len(s) THEN Fail ELSE Done(<<s[p + 1], s[p]>>, p + 2)

DecOptionU32(s, p) ==
    IF p > Len(s) THEN Fail
    ELSE IF s[p] = 0 THEN Done(None, p + 1)
    ELSE IF s[p] = 1 THEN
        (LET x == DecU32(s, p + 1) IN IF ~x.ok THEN Fail ELSE Done(Some(x.val), x.next))
    ELSE Fail

DecOptionStatus(s, p) ==
    IF p > Len(s) THEN Fail
    ELSE IF s[p] = 0 THEN Done(None, p + 1)
    ELSE IF s[p] = 1 THEN
        (IF p + 1 > Len(s) \/ s[p + 1] \notin 0..(Len(BookingStatus) - 1) THEN Fail
         ELSE Done(Some(BookingStatus[s[p + 1] + 1]), p + 2))
    ELSE Fail

DecString(s, p) ==
    IF p > Len(s) \/ s[p] \notin StrCodes THEN Fail ELSE Done(StrDecode(s[p]), p + 1)

\* Deserialize for RoomBooking (derived).
DecBooking(s, p) ==
    LET bid == DecOptionU32(s, p) IN
    IF ~bid.ok THEN Fail ELSE
    LET cust == DecU32(s, bid.next) IN
    IF ~cust.ok THEN Fail ELSE
    LET room == DecU8(s, cust.next) IN
    IF ~room.ok THEN Fail ELSE
    LET cin == DecString(s, room.next) IN
    IF ~cin.ok THEN Fail ELSE
    LET cout == DecString(s, cin.next) IN
    IF ~cout.ok THEN Fail ELSE
    LET st == DecOptionStatus(s, cout.next) IN
    IF ~st.ok THEN Fail ELSE
    Done(RoomBooking(bid.val, cust.val, room.val, cin.val, cout.val, st.val), st.next)

RECURSIVE DecEntries(_, _, _, _)
DecEntries(s, p, n, m) ==
    IF n = 0 THEN Done(m, p)
    ELSE LET k == DecU32(s, p) IN
         IF ~k.ok THEN Fail ELSE
         LET b == DecBooking(s, k.next) IN
         IF ~b.ok THEN Fail ELSE
         DecEntries(s, b.next, n - 1, Insert(m, k.val, b.val))

\* bincode::deserialize::<HashMap<u32, RoomBooking>>(&file_content)
deserialize(s) ==
    LET n == DecLen(s, 1) IN
    IF ~n.ok \/ n.val < 0 THEN Fail ELSE DecEntries(s, n.next, n.val, EmptyMap)

(***************************************************************************)
(* The snapshot file booking.dat: whether it exists, and its content.      *)
(***************************************************************************)
NoFile == [exists |-> FALSE, content |-> <<>>]
FileOf(bytes) == [exists |-> TRUE, content |-> bytes]

\* Variant: the status is left as the caller sent it.
StoredWithoutStatus(b, id, st) == set_booking_id(b, id)

\* A booking as create stores it.
Stored(b, id, st) == set_status(set_booking_id(b, id), st)

\* What booking.dat may hold when the process starts: nothing, a snapshot
\* written by an earlier run, or a file that is cut short.
EarlierStore ==
    Insert(EmptyMap, U32(1),
           Stored(RoomBooking(None, U32(1), 3, "2020-01-01", CheckOutDate, None),
                  U32(1), "Complete"))

InitialFiles ==
    { NoFile,
      FileOf(serialize(EarlierStore, <<U32(1)>>)),
      FileOf(SubSeq(serialize(EarlierStore, <<U32(1)>>), 1, 4)) }

\* What a failing write_all may leave: it can stop after any number of
\* bytes short of all.  The file is kept as its whole tokens; the bytes of
\* a token cut short are not a value and are left out.
PartialWrites(bytes) == { SubSeq(bytes, 1, k) : k \in 0..(Len(bytes) - 1) }

(***************************************************************************)
(* State.                                                                  *)
(***************************************************************************)
VARIABLES
    bookings,     \* BOOKING_LIST: the HashMap inside the Mutex
    poisoned,     \* the Mutex's poison flag
    lockOwner,    \* the thread holding the MutexGuard, or NoThread
    file,         \* booking.dat
    phase,        \* "boot" until main has run its startup load, then "serving"
    booted,       \* the map main left in BOOKING_LIST before serving
    profile,      \* overflow-checks of the build, once an overflow showed it
    pc,           \* per thread: position inside the storage function it runs
    op,           \* per thread: the function called and its arguments
    loc,          \* per thread: locals (booking, next_id, snapshot, save result)
    ret,          \* per thread: the value returned to the handler
    pre,          \* per thread: BOOKING_LIST and booking.dat when it took the lock
    issued,       \* ids returned by create so far, in order of return
    succeeded,    \* id -> status, for the status calls that returned true
                  \* with Complete or Cancelled
    nCreates,     \* create calls accepted so far
    faults,       \* failed library calls so far
    lastSave,     \* what the save_snapshot call that finished last in this
                  \* process did: "written", "blank", "failed", or "none"
    everSaved,    \* some save_snapshot call has written a whole encoding
    earlier,      \* ids create returned in earlier runs of the process
    restarts,     \* times the process was started again
    nLoads        \* load_snapshot calls made while serving

vars == <<bookings, poisoned, lockOwner, file, phase, booted, profile, pc, op, loc, ret,
          pre, issued, succeeded, nCreates, faults, lastSave, everSaved, earlier, restarts, nLoads>>

BlankBooking == RoomBooking(None, U32(0), 0, "", "", None)

NoOp == [name |-> "none", booking |-> BlankBooking, booking_id |-> U32(0), status |-> "",
         customer_id |-> U32(0), room_type_id |-> 0, date |-> ""]
NoLocals == [booking |-> BlankBooking, next_id |-> U32(0), snapshot |-> <<>>,
             encoded |-> "none", saved |-> "none", file_content |-> <<>>,
             capacity |-> 0, start_cap |-> 0, loaded |-> EmptyMap]
NoRet == [tag |-> "none", val |-> <<>>]
NoPre == [set |-> FALSE, bookings |-> EmptyMap, file |-> NoFile, succeeded |-> {},
         poisoned |-> FALSE]

Ret(tag, val) == [tag |-> tag, val |-> val]

\* The state in which a process starts with one of files as booking.dat.
Start(files) ==
    /\ bookings = EmptyMap
    /\ poisoned = FALSE
    /\ lockOwner = NoThread
    /\ file \in files
    /\ phase = "boot"
    /\ booted = EmptyMap
    /\ profile = "unobserved"
    /\ pc = [t \in Threads |-> "idle"]
    /\ op = [t \in Threads |-> NoOp]
    /\ loc = [t \in Threads |-> NoLocals]
    /\ ret = [t \in Threads |-> NoRet]
    /\ pre = [t \in Threads |-> NoPre]
    /\ issued = <<>>
    /\ succeeded = EmptyMap
    /\ nCreates = 0
    /\ faults = 0
    /\ lastSave = "none"
    /\ everSaved = FALSE
    /\ earlier = {}
    /\ restarts = 0
    /\ nLoads = 0

Init == Start(InitialFiles)

(***************************************************************************)
(* Startup: main loads the snapshot when one exists.                       *)
(***************************************************************************)
\* Variant: the file is never found.
snapshot_exists_never(f) == FALSE

\* snapshot_exists
snapshot_exists(f) == f.exists

\* load_snapshot up to its line 33: the decoded map, or the error returned.
\* readOk is whether File::open and read_to_end succeed.
load_snapshot(f, readOk) ==
    IF ~readOk THEN Fail
    ELSE LET snapshot == deserialize(f.content) IN
         IF snapshot.ok THEN Done(snapshot.val, 0) ELSE Fail

\* main, lines 105-111: load_snapshot is called when the file exists; its
\* error is printed and the process goes on.  The Mutex of a process that
\* has served no request is not poisoned, so line 35 stores the map.
Main ==
    /\ phase = "boot"
    /\ phase' = "serving"
    /\ \E readOk \in BOOLEAN :
         LET loaded == load_snapshot(file, readOk) IN
         /\ readOk \/ (snapshot_exists(file) /\ faults < MaxFaults)
         /\ faults' = IF readOk THEN faults ELSE faults + 1
         /\ bookings' = IF snapshot_exists(file) /\ loaded.ok
                        THEN loaded.val ELSE bookings
         /\ booted' = bookings'
    /\ UNCHANGED <<poisoned, lockOwner, file, profile, pc, op, loc, ret, pre,
                   issued, succeeded, nCreates,
                   lastSave, everSaved, earlier, restarts, nLoads>>

\* A returned value is handed to the handler before any thread moves on.
NoneDone == \A t \in Threads : pc[t] # "done"

(***************************************************************************)
(* The Mutex.                                                              *)
(***************************************************************************)
\* Variant: lock() returns a guard whether or not another one is alive.
LockAlways == TRUE

\* BOOKING_LIST.lock() returns only while no other guard is alive.
LockAvailable == lockOwner = NoThread

\* Dropping the MutexGuard at the end of the function.
Unlock(t) == IF lockOwner = t THEN NoThread ELSE lockOwner

StateNow == [set |-> TRUE, bookings |-> bookings, file |-> file,
             succeeded |-> DOMAIN succeeded, poisoned |-> poisoned]

(***************************************************************************)
(* create                                                                  *)
(***************************************************************************)
\* Variant: only a caller-supplied booking_id is refused.
RejectedIdOnly(booking) == booking.booking_id # None

\* The check of lines 79-81: a caller-supplied booking_id or status.
Rejected(booking) == booking.booking_id # None \/ booking.status # None

CreateCall(t, booking) ==
    /\ phase = "serving"
    /\ pc[t] = "idle"
    /\ NoneDone
    /\ op' = [op EXCEPT ![t] = [NoOp EXCEPT !.name = "create", !.booking = booking]]
    /\ IF Rejected(booking)
       THEN /\ ret' = [ret EXCEPT ![t] = Ret("Err", <<>>)]
            /\ pc' = [pc EXCEPT ![t] = "done"]
            /\ pre' = [pre EXCEPT ![t] = StateNow]
            /\ UNCHANGED nCreates
       ELSE /\ nCreates < MaxCreates
            /\ nCreates' = nCreates + 1
            /\ pc' = [pc EXCEPT ![t] = "create_lock"]
            /\ UNCHANGED <<ret, pre>>
    /\ UNCHANGED <<bookings, poisoned, lockOwner, file, phase, booted, profile, loc,
                   issued, succeeded, faults, lastSave, everSaved, earlier, restarts, nLoads>>

CreateLock(t) ==
    /\ pc[t] = "create_lock"
    /\ NoneDone
    /\ LockAvailable
    /\ pre' = [pre EXCEPT ![t] = StateNow]
    /\ IF poisoned
       THEN /\ ret' = [ret EXCEPT ![t] = Ret("Err", <<>>)]
            /\ pc' = [pc EXCEPT ![t] = "done"]
            /\ UNCHANGED lockOwner
       ELSE /\ lockOwner' = t
            /\ pc' = [pc EXCEPT ![t] = "create_id"]
            /\ UNCHANGED ret
    /\ UNCHANGED <<bookings, poisoned, file, phase, booted, profile, op, loc, issued, succeeded,
                   nCreates, faults,
                   lastSave, everSaved, earlier, restarts, nLoads>>

\* Lines 89-92: max_id, next_id, and the two setters on the local booking.
\* max_id + 1 overflows at u32::MAX: a panic with overflow checks (the guard
\* is dropped while unwinding, which poisons the Mutex), a wrap to 0 without.
CreateId(t) ==
    /\ pc[t] = "create_id"
    /\ NoneDone
    /\ \E o \in Orders(DOMAIN bookings) :
         LET mx == max_id(bookings, o) IN
         IF mx # U32_MAX
         THEN /\ loc' = [loc EXCEPT ![t].next_id = WrappingSucc(mx),
                                    ![t].booking = Stored(op[t].booking, WrappingSucc(mx),
                                                          "Confirmed")]
              /\ pc' = [pc EXCEPT ![t] = "create_insert"]
              /\ UNCHANGED <<poisoned, lockOwner, profile, ret>>
         ELSE \E build \in (IF profile = "unobserved" THEN {"debug", "release"}
                            ELSE {profile}) :
              /\ profile' = build
              /\ IF build = "debug"
                 THEN /\ poisoned' = TRUE
                      /\ lockOwner' = Unlock(t)
                      /\ ret' = [ret EXCEPT ![t] = Ret("panic", <<>>)]
                      /\ pc' = [pc EXCEPT ![t] = "done"]
                      /\ UNCHANGED loc
                 ELSE /\ loc' = [loc EXCEPT ![t].next_id = WrappingSucc(mx),
                                            ![t].booking = Stored(op[t].booking,
                                                 WrappingSucc(mx), "Confirmed")]
                      /\ pc' = [pc EXCEPT ![t] = "create_insert"]
                      /\ UNCHANGED <<poisoned, lockOwner, ret>>
    /\ UNCHANGED <<bookings, file, phase, booted, op, pre, issued, succeeded, nCreates, faults,
                   lastSave, everSaved, earlier, restarts, nLoads>>

\* Line 93: booking_list.insert(next_id, booking.clone())
CreateInsert(t) ==
    /\ pc[t] = "create_insert"
    /\ NoneDone
    /\ bookings' = Insert(bookings, loc[t].next_id, loc[t].booking)
    /\ pc' = [pc EXCEPT ![t] = "save_serialize"]
    /\ UNCHANGED <<poisoned, lockOwner, file, phase, booted, profile, op, loc, ret, pre,
                   issued, succeeded, nCreates, faults,
                   lastSave, everSaved, earlier, restarts, nLoads>>

\* Variant: a failed save_snapshot fails the call.
CreateResultChecked(booking, saved) ==
    IF saved = "false" THEN Ret("Err", <<>>) ELSE Ret("Ok", <<booking>>)

\* Lines 94-95: the value of save_snapshot is dropped; create returns Ok(booking).
CreateResult(booking, saved) == Ret("Ok", <<booking>>)

\* Line 95: return Ok(booking); the guard is dropped.
CreateReturn(t) ==
    /\ pc[t] = "create_return"
    /\ NoneDone
    /\ ret' = [ret EXCEPT ![t] = CreateResult(loc[t].booking, loc[t].saved)]
    /\ issued' = Append(issued, loc[t].next_id)
    /\ lockOwner' = Unlock(t)
    /\ pc' = [pc EXCEPT ![t] = "done"]
    /\ UNCHANGED <<bookings, poisoned, file, phase, booted, profile, op, loc, pre,
                   succeeded, nCreates, faults,
                   lastSave, everSaved, earlier, restarts, nLoads>>

(***************************************************************************)
(* save_snapshot, called by create and status with the guard held.  Its    *)
(* three steps are the three library calls; the boolean it returns is      *)
(* kept in loc[t].saved (both callers discard it).                         *)
(***************************************************************************)
AfterSave(t) == IF op[t].name = "create" THEN "create_return" ELSE "status_return"

\* Variant: only the entry iterated first is encoded.
EncodedFirst(booking_list, o, encOk) ==
    IF encOk THEN serialize(booking_list, SubSeq(o, 1, 1)) ELSE <<>>

\* Line 42-44: the bytes to write; an encoding error yields Vec::new().
Encoded(booking_list, o, encOk) == IF encOk THEN serialize(booking_list, o) ELSE <<>>

SaveSerialize(t) ==
    /\ pc[t] = "save_serialize"
    /\ NoneDone
    /\ \E encOk \in BOOLEAN, o \in Orders(DOMAIN bookings) :
         /\ encOk \/ faults < MaxFaults
         /\ faults' = IF encOk THEN faults ELSE faults + 1
         /\ loc' = [loc EXCEPT ![t].snapshot = Encoded(bookings, o, encOk),
                                ![t].encoded = IF encOk THEN "ok" ELSE "err"]
    /\ pc' = [pc EXCEPT ![t] = "save_create"]
    /\ UNCHANGED <<bookings, poisoned, lockOwner, file, phase, booted, profile, op, ret,
                   pre, issued, succeeded, nCreates,
                   lastSave, everSaved, earlier, restarts, nLoads>>

\* Lines 46-51: File::create truncates booking.dat, or fails and save returns false.
SaveCreate(t) ==
    /\ pc[t] = "save_create"
    /\ NoneDone
    /\ \E createOk \in BOOLEAN :
         /\ createOk \/ faults < MaxFaults
         /\ IF createOk
            THEN /\ file' = FileOf(<<>>)
                 /\ pc' = [pc EXCEPT ![t] = "save_write"]
                 /\ UNCHANGED <<loc, faults, lastSave>>
            ELSE /\ loc' = [loc EXCEPT ![t].saved = "false"]
                 /\ pc' = [pc EXCEPT ![t] = AfterSave(t)]
                 /\ faults' = faults + 1
                 /\ lastSave' = "failed"
                 /\ UNCHANGED file
    /\ UNCHANGED <<bookings, poisoned, lockOwner, phase, booted, profile, op, ret, pre,
                   issued, succeeded, nCreates, everSaved, earlier, restarts, nLoads>>

\* Lines 53-56: write_all writes every byte and save returns true, or stops
\* part of the way and save returns false.  With no byte to write it
\* returns Ok at once.
SaveWrite(t) ==
    /\ pc[t] = "save_write"
    /\ NoneDone
    /\ \E writeOk \in BOOLEAN :
         /\ writeOk \/ (faults < MaxFaults /\ Len(loc[t].snapshot) > 0)
         /\ IF writeOk
            THEN /\ file' = FileOf(loc[t].snapshot)
                 /\ loc' = [loc EXCEPT ![t].saved = "true"]
                 /\ lastSave' = IF loc[t].encoded = "ok" THEN "written" ELSE "blank"
                 /\ everSaved' = (everSaved \/ loc[t].encoded = "ok")
                 /\ UNCHANGED faults
            ELSE /\ \E part \in PartialWrites(loc[t].snapshot) : file' = FileOf(part)
                 /\ loc' = [loc EXCEPT ![t].saved = "false"]
                 /\ lastSave' = "failed"
                 /\ faults' = faults + 1
                 /\ UNCHANGED everSaved
    /\ pc' = [pc EXCEPT ![t] = AfterSave(t)]
    /\ UNCHANGED <<bookings, poisoned, lockOwner, phase, booted, profile, op, ret, pre,
                   issued, succeeded, nCreates, earlier, restarts, nLoads>>

(***************************************************************************)
(* status                                                                  *)
(***************************************************************************)
\* Lines 110-115: the handler calls status, whose first statement takes the
\* lock; a caller blocked there has not started.
StatusLock(t, booking_id, status) ==
    /\ phase = "serving"
    /\ pc[t] = "idle"
    /\ NoneDone
    /\ LockAvailable
    /\ op' = [op EXCEPT ![t] = [NoOp EXCEPT !.name = "status",
                                            !.booking_id = booking_id,
                                            !.status = status]]
    /\ pre' = [pre EXCEPT ![t] = StateNow]
    /\ IF poisoned
       THEN /\ ret' = [ret EXCEPT ![t] = Ret("bool", <<FALSE>>)]
            /\ pc' = [pc EXCEPT ![t] = "done"]
            /\ UNCHANGED lockOwner
       ELSE /\ lockOwner' = t
            /\ pc' = [pc EXCEPT ![t] = "status_get"]
            /\ UNCHANGED ret
    /\ UNCHANGED <<bookings, poisoned, file, phase, booted, profile, loc, issued, succeeded,
                   nCreates, faults,
                   lastSave, everSaved, earlier, restarts, nLoads>>

\* Variant: the current status of the booking is not looked at.
MayChangeAnyStatus(booking_list, booking_id, status) ==
    booking_id \in DOMAIN booking_list

\* Variant: an id the map does not hold is let through.
MayChangeMissing(booking_list, booking_id, status) ==
    \/ booking_id \notin DOMAIN booking_list
    \/ booking_list[booking_id].status = Some("Confirmed")

\* Lines 117-124: whether status goes on to change the booking.
MayChange(booking_list, booking_id, status) ==
    /\ booking_id \in DOMAIN booking_list
    /\ booking_list[booking_id].status = Some("Confirmed")

StatusGet(t) ==
    /\ pc[t] = "status_get"
    /\ NoneDone
    /\ IF MayChange(bookings, op[t].booking_id, op[t].status)
       THEN /\ pc' = [pc EXCEPT ![t] = "status_set"]
            /\ UNCHANGED <<ret, lockOwner>>
       ELSE /\ ret' = [ret EXCEPT ![t] = Ret("bool", <<FALSE>>)]
            /\ lockOwner' = Unlock(t)
            /\ pc' = [pc EXCEPT ![t] = "done"]
    /\ UNCHANGED <<bookings, poisoned, file, phase, booted, profile, op, loc, pre, issued, succeeded,
                   nCreates, faults,
                   lastSave, everSaved, earlier, restarts, nLoads>>

\* Line 126: booking.set_status(status) on the entry inside the map.
StatusSet(t) ==
    /\ pc[t] = "status_set"
    /\ NoneDone
    /\ bookings' = [bookings EXCEPT ![op[t].booking_id] = set_status(@, op[t].status)]
    /\ pc' = [pc EXCEPT ![t] = "save_serialize"]
    /\ UNCHANGED <<poisoned, lockOwner, file, phase, booted, profile, op, loc, ret, pre,
                   issued, succeeded, nCreates, faults,
                   lastSave, everSaved, earlier, restarts, nLoads>>

\* Lines 127-128: the value of save_snapshot is dropped; status returns true.
StatusResult(saved) == Ret("bool", <<TRUE>>)

\* Line 128: return true; the guard is dropped.
StatusReturn(t) ==
    /\ pc[t] = "status_return"
    /\ NoneDone
    /\ ret' = [ret EXCEPT ![t] = StatusResult(loc[t].saved)]
    /\ succeeded' = IF op[t].status \in {"Complete", "Cancelled"}
                    THEN Insert(succeeded, op[t].booking_id, op[t].status)
                    ELSE succeeded
    /\ lockOwner' = Unlock(t)
    /\ pc' = [pc EXCEPT ![t] = "done"]
    /\ UNCHANGED <<bookings, poisoned, file, phase, booted, profile, op, loc, pre, issued,
                   nCreates, faults,
                   lastSave, everSaved, earlier, restarts, nLoads>>

(***************************************************************************)
(* The fetch functions: what each returns from the map it has locked,      *)
(* iterating it in order o.                                                *)
(***************************************************************************)
fetch_by_id(booking_list, booking_id) ==
    IF booking_id \in DOMAIN booking_list THEN Some(booking_list[booking_id]) ELSE None

fetch_by_customer_id(booking_list, o, customer_id) ==
    SelectSeq(Values(booking_list, o), LAMBDA booking : booking.customer_id = customer_id)

\* Variant: every booking is returned when no check-in date matches.
fetch_by_check_in_date_or_all(booking_list, o, date) ==
    IF \E k \in DOMAIN booking_list : booking_list[k].check_in_date = date
    THEN SelectSeq(Values(booking_list, o), LAMBDA booking : booking.check_in_date = date)
    ELSE Values(booking_list, o)

fetch_by_check_in_date(booking_list, o, date) ==
    SelectSeq(Values(booking_list, o), LAMBDA booking : booking.check_in_date = date)

\* Variant: the filter compares the customer id.
fetch_by_room_type_id_customer(booking_list, o, room_type_id) ==
    SelectSeq(Values(booking_list, o),
              LAMBDA booking : booking.customer_id = U32(room_type_id))

fetch_by_room_type_id(booking_list, o, room_type_id) ==
    SelectSeq(Values(booking_list, o), LAMBDA booking : booking.room_type_id = room_type_id)

fetch_all(booking_list, o) == Values(booking_list, o)

FetchNames == {"fetch_by_id", "fetch_by_customer_id", "fetch_by_check_in_date",
               "fetch_by_room_type_id", "fetch_all"}

\* The value a fetch function returns when it got the lock.
FetchResult(q, booking_list, o) ==
    CASE q.name = "fetch_by_id" ->
           Ret("opt", fetch_by_id(booking_list, q.booking_id))
      [] q.name = "fetch_by_customer_id" ->
           Ret("list", fetch_by_customer_id(booking_list, o, q.customer_id))
      [] q.name = "fetch_by_check_in_date" ->
           Ret("list", fetch_by_check_in_date(booking_list, o, q.date))
      [] q.name = "fetch_by_room_type_id" ->
           Ret("list", fetch_by_room_type_id(booking_list, o, q.room_type_id))
      [] q.name = "fetch_all" ->
           Ret("list", fetch_all(booking_list, o))

\* The value a fetch function returns when the lock is poisoned.
FetchDegraded(q) == IF q.name = "fetch_by_id" THEN Ret("opt", None) ELSE Ret("list", <<>>)

\* The requests the fetch handlers pass on.
FetchRequests(name) ==
    CASE name = "fetch_by_id" -> {[NoOp EXCEPT !.name = name, !.booking_id = id] :
                                    id \in RequestIds}
      [] name = "fetch_by_customer_id" -> {[NoOp EXCEPT !.name = name, !.customer_id = c] :
                                    c \in RequestCustomers}
      [] name = "fetch_by_check_in_date" -> {[NoOp EXCEPT !.name = name, !.date = d] :
                                    d \in RequestDates}
      [] name = "fetch_by_room_type_id" -> {[NoOp EXCEPT !.name = name, !.room_type_id = r] :
                                    r \in RequestRoomTypes}
      [] name = "fetch_all" -> {[NoOp EXCEPT !.name = name]}

\* The handler calls a fetch function, whose first statement takes the lock.
FetchLock(t) ==
    /\ phase = "serving"
    /\ pc[t] = "idle"
    /\ NoneDone
    /\ LockAvailable
    /\ \E name \in FetchNames : \E q \in FetchRequests(name) :
         /\ op' = [op EXCEPT ![t] = q]
         /\ IF poisoned
            THEN /\ ret' = [ret EXCEPT ![t] = FetchDegraded(q)]
                 /\ pc' = [pc EXCEPT ![t] = "done"]
                 /\ UNCHANGED lockOwner
            ELSE /\ lockOwner' = t
                 /\ pc' = [pc EXCEPT ![t] = "fetch_read"]
                 /\ UNCHANGED ret
    /\ pre' = [pre EXCEPT ![t] = StateNow]
    /\ UNCHANGED <<bookings, poisoned, file, phase, booted, profile, loc, issued, succeeded,
                   nCreates, faults,
                   lastSave, everSaved, earlier, restarts, nLoads>>

\* The body after the lock: build the result and return, dropping the guard.
FetchRead(t) ==
    /\ pc[t] = "fetch_read"
    /\ NoneDone
    /\ \E o \in Orders(DOMAIN bookings) :
         ret' = [ret EXCEPT ![t] = FetchResult(op[t], bookings, o)]
    /\ lockOwner' = Unlock(t)
    /\ pc' = [pc EXCEPT ![t] = "done"]
    /\ UNCHANGED <<bookings, poisoned, file, phase, booted, profile, op, loc, pre, issued, succeeded,
                   nCreates, faults,
                   lastSave, everSaved, earlier, restarts, nLoads>>

\* The handler has used the result; the thread takes the next request.
Return(t) ==
    /\ pc[t] = "done"
    /\ pc' = [pc EXCEPT ![t] = "idle"]
    /\ op' = [op EXCEPT ![t] = NoOp]
    /\ loc' = [loc EXCEPT ![t] = NoLocals]
    /\ ret' = [ret EXCEPT ![t] = NoRet]
    /\ pre' = [pre EXCEPT ![t] = NoPre]
    /\ UNCHANGED <<bookings, poisoned, lockOwner, file, phase, booted, profile, issued, succeeded,
                   nCreates, faults,
                   lastSave, everSaved, earlier, restarts, nLoads>>

(***************************************************************************)
(* The bytes of booking.dat.  read(2) counts bytes, and a read may end     *)
(* inside an encoded field, so the reading side of load_snapshot works on  *)
(* the bytes the tokens stand for: the map length is a u64 (8 bytes), each *)
(* half of a u32 2 bytes, a tag and a u8 1 byte, a String its u64 length   *)
(* and its characters, the variant index of an enum a u32 (4 bytes); all   *)
(* little-endian.                                                          *)
(***************************************************************************)
\* The w little-endian bytes of a number below 2^24.
LittleEndian(x, w) ==
    SubSeq(<<x % 256, (x \div 256) % 256, (x \div 65536) % 256, 0, 0, 0, 0, 0>>, 1, w)

\* The number a little-endian byte sequence holds; -1 stands for every
\* number of 2^24 and above, which no field of the model decodes.
FromLittleEndian(b) ==
    IF \E i \in 4..Len(b) : b[i] # 0 THEN -1
    ELSE b[1] + (IF Len(b) >= 2 THEN 256 * b[2] ELSE 0)
              + (IF Len(b) >= 3 THEN 65536 * b[3] ELSE 0)

\* The characters of a date string, in ASCII.
StrChars(c) ==
    <<50, 48, 50, 48, 45, 48, 49, 45, 48>>
      \o CASE c = 20200101 -> <<49>>
           [] c = 20200102 -> <<50>>
           [] c = 20200108 -> <<56>>

\* The token of a String with the given characters; 0, which decodes to no
\* String, for characters other than those of the dates of the model.
StrToken(chars) ==
    IF \E c \in StrCodes : StrChars(c) = chars
    THEN CHOOSE c \in StrCodes : StrChars(c) = chars
    ELSE 0

\* The field that follows a field holding v, in the order bincode writes a
\* HashMap<u32, RoomBooking>: the length, then per entry the key and the
\* six fields of the booking.
NextField(field, v) ==
    CASE field = "len" -> "key_lo"
      [] field = "key_lo" -> "key_hi"
      [] field = "key_hi" -> "id_tag"
      [] field = "id_tag" -> IF v = 1 THEN "id_lo" ELSE "customer_lo"
      [] field = "id_lo" -> "id_hi"
      [] field = "id_hi" -> "customer_lo"
      [] field = "customer_lo" -> "customer_hi"
      [] field = "customer_hi" -> "room_type_id"
      [] field = "room_type_id" -> "check_in_date"
      [] field = "check_in_date" -> "check_out_date"
      [] field = "check_out_date" -> "status_tag"
      [] field = "status_tag" -> IF v = 1 THEN "variant" ELSE "key_lo"
      [] field = "variant" -> "key_lo"

StringFields == {"check_in_date", "check_out_date"}

\* The bytes of a field without a length of its own.
Width(field) ==
    CASE field = "len" -> 8
      [] field \in {"key_lo", "key_hi", "id_lo", "id_hi",
                    "customer_lo", "customer_hi"} -> 2
      [] field \in {"id_tag", "room_type_id", "status_tag"} -> 1
      [] field = "variant" -> 4

\* The bytes of the token v of a field.
TokenBytes(field, v) ==
    IF field \in StringFields
    THEN LittleEndian(Len(StrChars(v)), 8) \o StrChars(v)
    ELSE LittleEndian(v, Width(field))

RECURSIVE BytesFrom(_, _, _)
BytesFrom(content, p, field) ==
    IF p > Len(content) THEN <<>>
    ELSE TokenBytes(field, content[p])
           \o BytesFrom(content, p + 1, NextField(field, content[p]))

\* The bytes of a file holding the tokens content.
FileBytes(content) == BytesFrom(content, 1, "len")

RECURSIVE TokensFrom(_, _, _)
\* The tokens of the bytes from position q on; the bytes of a field that is
\* cut short are no token.
TokensFrom(bytes, q, field) ==
    LET size == IF field \in StringFields
                THEN (IF q + 7 > Len(bytes) THEN 8
                      ELSE LET n == FromLittleEndian(SubSeq(bytes, q, q + 7))
                           IN IF n < 0 THEN Len(bytes) ELSE 8 + n)
                ELSE Width(field)
        v == IF field \in StringFields
             THEN StrToken(SubSeq(bytes, q + 8, q + size - 1))
             ELSE FromLittleEndian(SubSeq(bytes, q, q + size - 1))
    IN IF q + size - 1 > Len(bytes) THEN <<>>
       ELSE <<v>> \o TokensFrom(bytes, q + size, NextField(field, v))

\* The tokens bincode::deserialize reads from the bytes of file_content.
FileTokens(bytes) == TokensFrom(bytes, 1, "len")

(***************************************************************************)
(* load_snapshot called while the store is in use.  The function is public *)
(* and takes the lock only for its last statement: it opens and reads      *)
(* booking.dat without the lock, one read(2) after the other, so a         *)
(* save_snapshot of another thread may truncate and rewrite the file       *)
(* between two reads.  The descriptor stays on the same file and keeps its *)
(* offset.  read_to_end reads into the Vec file_content: it reserves the   *)
(* length the file has when it starts, and once the Vec is full at that    *)
(* capacity (or the file was empty) it reads into a probe buffer of 32     *)
(* bytes; after that it reads into the spare capacity of the Vec, growing  *)
(* the Vec by 32 bytes or to twice its capacity when it is full.           *)
(***************************************************************************)
\* The size of the probe buffer of read_to_end.
PROBE_SIZE == 32
\* The least capacity a Vec<u8> allocates.
MIN_NON_ZERO_CAP == 8

\* The capacity of a Vec<u8> of length len after room for additional bytes
\* was asked for: unchanged while they fit, else the greater of twice the
\* capacity and the length needed.
Grow(capacity, len, additional) ==
    IF additional <= capacity - len THEN capacity
    ELSE LET required == len + additional
             amortized == IF 2 * capacity >= required THEN 2 * capacity ELSE required
         IN IF amortized >= MIN_NON_ZERO_CAP THEN amortized ELSE MIN_NON_ZERO_CAP

\* Whether the next read(2) goes into the probe buffer: the Vec is full and
\* still has the capacity it started with.
Probes(len, capacity, start_cap) == len = capacity /\ capacity = start_cap

\* The capacity of the Vec when the next read(2) is issued.
CapacityAtRead(len, capacity, start_cap) ==
    IF ~Probes(len, capacity, start_cap) /\ len = capacity
    THEN Grow(capacity, len, PROBE_SIZE) ELSE capacity

\* The bytes one read(2) returns when the file holds `there` bytes from the
\* offset on: as many as are asked for, or all there are.
ReadCount(there, len, capacity, start_cap) ==
    LET asked == IF Probes(len, capacity, start_cap) THEN PROBE_SIZE
                 ELSE CapacityAtRead(len, capacity, start_cap) - len
    IN IF there <= 0 THEN 0 ELSE IF asked < there THEN asked ELSE there

\* Lines 28-30: file_content is empty and File::open returns the file, or
\* its error is returned; read_to_end begins by reserving room in
\* file_content for the length the file has now.
LoadOpen(t) ==
    /\ phase = "serving"
    /\ pc[t] = "idle"
    /\ NoneDone
    /\ nLoads < MaxLoads
    /\ nLoads' = nLoads + 1
    /\ op' = [op EXCEPT ![t] = [NoOp EXCEPT !.name = "load_snapshot"]]
    /\ \E openOk \in BOOLEAN :
         /\ openOk \/ faults < MaxFaults
         /\ faults' = IF openOk THEN faults ELSE faults + 1
         /\ IF openOk /\ snapshot_exists(file)
            THEN /\ pc' = [pc EXCEPT ![t] = "load_read"]
                 /\ LET reserved == Grow(0, 0, Len(FileBytes(file.content)))
                    IN loc' = [loc EXCEPT ![t].capacity = reserved,
                                           ![t].start_cap = reserved]
                 /\ UNCHANGED <<ret, pre>>
            ELSE /\ ret' = [ret EXCEPT ![t] = Ret("Err", <<>>)]
                 /\ pc' = [pc EXCEPT ![t] = "done"]
                 /\ pre' = [pre EXCEPT ![t] = StateNow]
                 /\ UNCHANGED loc
    /\ UNCHANGED <<bookings, poisoned, lockOwner, file, phase, booted, profile, issued,
                   succeeded, nCreates, lastSave, everSaved, earlier, restarts>>

\* Lines 30-33: one read(2) of read_to_end, at the offset the descriptor
\* has reached, which is the length read so far.  When the file holds
\* nothing there it returns 0, read_to_end ends and the content read is
\* decoded.  A read error or a decoding error returns Err.
LoadRead(t) ==
    /\ pc[t] = "load_read"
    /\ NoneDone
    /\ \E bytes \in {FileBytes(file.content)} :
         LET len == Len(loc[t].file_content)
             capacity == loc[t].capacity
             start_cap == loc[t].start_cap
             n == ReadCount(Len(bytes) - len, len, capacity, start_cap)
             snapshot == deserialize(FileTokens(loc[t].file_content))
         IN \/ /\ n > 0
               /\ loc' = [loc EXCEPT
                    ![t].file_content = @ \o SubSeq(bytes, len + 1, len + n),
                    ![t].capacity = IF Probes(len, capacity, start_cap)
                                    THEN Grow(capacity, len, n)
                                    ELSE CapacityAtRead(len, capacity, start_cap)]
               /\ UNCHANGED <<pc, ret, pre, faults>>
            \/ /\ n = 0
               /\ IF snapshot.ok
                  THEN /\ loc' = [loc EXCEPT ![t].loaded = snapshot.val]
                       /\ pc' = [pc EXCEPT ![t] = "load_lock"]
                       /\ UNCHANGED <<ret, pre>>
                  ELSE /\ ret' = [ret EXCEPT ![t] = Ret("Err", <<>>)]
                       /\ pc' = [pc EXCEPT ![t] = "done"]
                       /\ pre' = [pre EXCEPT ![t] = StateNow]
                       /\ UNCHANGED loc
               /\ UNCHANGED faults
            \/ /\ faults < MaxFaults
               /\ faults' = faults + 1
               /\ ret' = [ret EXCEPT ![t] = Ret("Err", <<>>)]
               /\ pc' = [pc EXCEPT ![t] = "done"]
               /\ pre' = [pre EXCEPT ![t] = StateNow]
               /\ UNCHANGED loc
    /\ UNCHANGED <<bookings, poisoned, lockOwner, file, phase, booted, profile, op, issued,
                   succeeded, nCreates, lastSave, everSaved, earlier, restarts, nLoads>>

\* Line 35: *BOOKING_LIST.lock().unwrap() = snapshot.  The guard lives for
\* this statement only; unwrap panics when the Mutex is poisoned.
LoadLock(t) ==
    /\ pc[t] = "load_lock"
    /\ NoneDone
    /\ LockAvailable
    /\ pre' = [pre EXCEPT ![t] = StateNow]
    /\ IF poisoned
       THEN /\ ret' = [ret EXCEPT ![t] = Ret("panic", <<>>)]
            /\ UNCHANGED bookings
       ELSE /\ ret' = [ret EXCEPT ![t] = Ret("Ok", <<>>)]
            /\ bookings' = loc[t].loaded
    /\ pc' = [pc EXCEPT ![t] = "done"]
    /\ UNCHANGED <<poisoned, lockOwner, file, phase, booted, profile, op, loc, issued,
                   succeeded, nCreates, faults, lastSave, everSaved, earlier, restarts, nLoads>>

(***************************************************************************)
(* The end of the process and its next start.                              *)
(***************************************************************************)
\* The process is ended at any point (killed, or the machine stops) and is
\* started again: BOOKING_LIST is built anew by its initialiser (lines
\* 16-19), the handler threads and the guard are gone, and booking.dat is
\* what the old process left of it.
Crash ==
    /\ phase = "serving"
    /\ NoneDone
    /\ restarts < MaxRestarts
    /\ restarts' = restarts + 1
    /\ earlier' = earlier \cup {issued[i] : i \in 1..Len(issued)}
    /\ bookings' = EmptyMap
    /\ poisoned' = FALSE
    /\ lockOwner' = NoThread
    /\ phase' = "boot"
    /\ booted' = EmptyMap
    /\ pc' = [t \in Threads |-> "idle"]
    /\ op' = [t \in Threads |-> NoOp]
    /\ loc' = [t \in Threads |-> NoLocals]
    /\ ret' = [t \in Threads |-> NoRet]
    /\ pre' = [t \in Threads |-> NoPre]
    /\ issued' = <<>>
    /\ succeeded' = EmptyMap
    /\ lastSave' = "none"
    /\ UNCHANGED <<file, profile, nCreates, faults, everSaved, nLoads>>

Next ==
    \/ Main
    \/ \E t \in Threads :
         \/ Return(t)
         \/ \E booking \in FreshBookings \cup PresetBookings : CreateCall(t, booking)
         \/ CreateLock(t)
         \/ CreateId(t)
         \/ CreateInsert(t)
         \/ CreateReturn(t)
         \/ SaveSerialize(t)
         \/ SaveCreate(t)
         \/ SaveWrite(t)
         \/ \E id \in RequestIds, st \in Statuses : StatusLock(t, id, st)
         \/ StatusGet(t)
         \/ StatusSet(t)
         \/ StatusReturn(t)
         \/ FetchLock(t)
         \/ FetchRead(t)

Spec == Init /\ [][Next]_vars

(***************************************************************************)
(* The store at the top of the id range: booking.dat holds a booking whose *)
(* id is u32::MAX, and load_snapshot may be called again by any thread.    *)
(***************************************************************************)
WrapStore ==
    Insert(EmptyMap, U32_MAX,
           Stored(RoomBooking(None, U32(1), 3, "2020-01-01", CheckOutDate, None),
                  U32_MAX, "Confirmed"))

WrapFiles == { FileOf(serialize(WrapStore, <<U32_MAX>>)) }

InitWrap == Start(WrapFiles)

\* The thread that calls load_snapshot while requests are served.  The
\* threads are alike, so which of them calls makes no difference.
Loaders == {"w1"}

NextWrap ==
    \/ Next
    \/ \E t \in Loaders :
         \/ LoadOpen(t)
         \/ LoadRead(t)
         \/ LoadLock(t)

SpecWrap == InitWrap /\ [][NextWrap]_vars

(***************************************************************************)
(* The store over several runs of the process.                             *)
(***************************************************************************)
NextCrash ==
    \/ Next
    \/ Crash

\* The first start of the process, before any booking.dat was written.
InitCrash == Start({NoFile})

SpecCrash == InitCrash /\ [][NextCrash]_vars

(***************************************************************************)
(* Properties.  A thread at "done" has just returned: ret[t] is the value  *)
(* returned, pre[t] the store and the file when the call took the lock     *)
(* (or, for a create rejected before the lock, when it was called), and    *)
(* bookings and file are the store and the file at the return.             *)
(***************************************************************************)
Returned(t, name) == pc[t] = "done" /\ op[t].name = name

\* A creation request that sets a field the store owns.
SetsServerField(booking) == booking.booking_id # None \/ booking.status # None

\* C1: once status has returned true on a booking with Complete or
\* Cancelled, the booking keeps that status in every later state, and every
\* later status call on that id, whatever the requested status, returns
\* false and leaves the stored booking as it was.
C1_TerminalAbsorbing ==
    /\ \A id \in DOMAIN succeeded :
         id \in DOMAIN bookings /\ bookings[id].status = Some(succeeded[id])
    /\ \A t \in Threads :
         (Returned(t, "status") /\ op[t].booking_id \in pre[t].succeeded)
           => /\ ret[t] = Ret("bool", <<FALSE>>)
              /\ bookings = pre[t].bookings

\* status(id, Confirmed) has returned false on a booking an earlier call
\* cancelled, and the booking is still Cancelled.
C1_Witness ==
    \E t \in Threads :
      /\ Returned(t, "status")
      /\ op[t].booking_id \in pre[t].succeeded
      /\ op[t].status = "Confirmed"
      /\ ret[t] = Ret("bool", <<FALSE>>)
      /\ bookings[op[t].booking_id].status = Some("Cancelled")

\* C2: status(id, requested) on a stored booking returns true exactly when
\* the booking is Confirmed and requested is Complete or Cancelled, and
\* every other pair, Confirmed on a Confirmed booking included, returns
\* false without a change.
C2_OnlyConfirmedToTerminal ==
    \A t \in Threads :
      (Returned(t, "status") /\ ~poisoned /\ op[t].booking_id \in DOMAIN pre[t].bookings)
        => LET before == pre[t].bookings[op[t].booking_id].status
               allowed == before = Some("Confirmed")
                            /\ op[t].status \in {"Complete", "Cancelled"}
           IN IF allowed
              THEN /\ ret[t] = Ret("bool", <<TRUE>>)
                   /\ bookings[op[t].booking_id].status = Some(op[t].status)
              ELSE /\ ret[t] = Ret("bool", <<FALSE>>)
                   /\ bookings = pre[t].bookings
                   /\ file = pre[t].file

\* One plus the maximum id of the map m, 1 when m is empty.
OnePlusMaximum(m) ==
    IF DOMAIN m = {} THEN U32(1)
    ELSE WrappingSucc(CHOOSE k \in DOMAIN m : \A j \in DOMAIN m : LessEq(j, k))

\* C3: with the lock healthy, create of a booking with booking_id and
\* status unset returns Ok(b) where b is the caller's booking with status
\* Confirmed and booking_id one plus the maximum id of the store (1 for an
\* empty store); b is stored under that id and nothing else changes, so
\* fetch_by_id of that id returns b.
C3_CreateAssigns ==
    \A t \in Threads :
      (Returned(t, "create") /\ ~SetsServerField(op[t].booking) /\ ~poisoned)
        => /\ ret[t].tag = "Ok"
           /\ LET b == ret[t].val[1]
                  id == OnePlusMaximum(pre[t].bookings)
              IN /\ b = [op[t].booking EXCEPT !.booking_id = Some(id),
                                             !.status = Some("Confirmed")]
                 /\ bookings = Insert(pre[t].bookings, id, b)
                 /\ id \notin DOMAIN pre[t].bookings
                 /\ fetch_by_id(bookings, id) = Some(b)

\* A create has returned on a store that already held a booking.
C3_Witness ==
    \E t \in Threads :
      /\ Returned(t, "create")
      /\ ret[t].tag = "Ok"
      /\ ret[t].val[1].booking_id = Some(U32(2))
      /\ ret[t].val[1].customer_id = U32(4)
      /\ DOMAIN pre[t].bookings = {U32(1)}

\* C4: from a store that is empty after startup the ids create returns are
\* 1, 2, 3, ... in the order of the returns, whatever status calls and
\* fetches happen between them.
C4_IdsCountUp ==
    DOMAIN booted = {} => \A i \in 1..Len(issued) : issued[i] = U32(i)

\* A second create has returned id 2 after booking 1 was cancelled.
C4_Witness ==
    \E t \in Threads :
      /\ Returned(t, "create")
      /\ DOMAIN booted = {}
      /\ issued = <<U32(1), U32(2)>>
      /\ U32(1) \in DOMAIN pre[t].bookings
      /\ pre[t].bookings[U32(1)].status = Some("Cancelled")

\* C5: create of a booking with booking_id or status set returns Err, and
\* the store and the file are as they were at the call: nothing inserted,
\* save_snapshot not entered.
C5_PresetRejected ==
    \A t \in Threads :
      (Returned(t, "create") /\ SetsServerField(op[t].booking))
        => /\ ret[t] = Ret("Err", <<>>)
           /\ bookings = pre[t].bookings
           /\ file = pre[t].file
           /\ loc[t] = NoLocals

\* A create with only status set was rejected while the store held bookings
\* and another thread was inside create.
C5_Witness ==
    \E t, u \in Threads :
      /\ Returned(t, "create")
      /\ op[t].booking.booking_id = None
      /\ op[t].booking.status # None
      /\ ret[t].tag = "Err"
      /\ DOMAIN bookings = {U32(1)}
      /\ pc[u] = "create_id"

\* C6: status on an id the store does not hold returns false; the store
\* and the file are as they were, no booking exists under that id, and
\* save_snapshot was not entered.
C6_MissingId ==
    \A t \in Threads :
      (Returned(t, "status") /\ op[t].booking_id \notin DOMAIN pre[t].bookings)
        => /\ ret[t] = Ret("bool", <<FALSE>>)
           /\ bookings = pre[t].bookings
           /\ op[t].booking_id \notin DOMAIN bookings
           /\ file = pre[t].file
           /\ loc[t] = NoLocals

\* status(2, Cancelled) has returned false on a store holding only booking 1.
C6_Witness ==
    \E t \in Threads :
      /\ Returned(t, "status")
      /\ op[t].booking_id = U32(2)
      /\ op[t].status = "Cancelled"
      /\ DOMAIN pre[t].bookings = {U32(1)}
      /\ ret[t] = Ret("bool", <<FALSE>>)

\* The positions at which a thread holds the MutexGuard.
GuardHeld ==
    {"create_id", "create_insert", "save_serialize", "save_create", "save_write",
     "create_return", "status_get", "status_set", "status_return", "fetch_read"}

\* C7: operations of different threads never overlap inside the lock, so
\* every call acts on the store as it was when the call took the lock and
\* nothing of another call is interleaved: creates get pairwise distinct
\* ids and every booking created stays stored, a status call changes one
\* status, and a fetch returns the content of a store no call is in the
\* middle of changing.
C7_Serialized ==
    /\ \A t, u \in Threads : (pc[t] \in GuardHeld /\ pc[u] \in GuardHeld) => t = u
    /\ \A i, j \in 1..Len(issued) : issued[i] = issued[j] => i = j
    /\ \A i \in 1..Len(issued) : issued[i] \in DOMAIN bookings
    /\ \A t \in Threads :
         /\ (Returned(t, "create") /\ ret[t].tag = "Ok")
              => bookings = Insert(pre[t].bookings, ret[t].val[1].booking_id[1],
                                   ret[t].val[1])
         /\ (Returned(t, "status") /\ ret[t] = Ret("bool", <<TRUE>>))
              => bookings = [pre[t].bookings EXCEPT
                               ![op[t].booking_id].status = Some(op[t].status)]
         /\ (pc[t] = "done" /\ op[t].name \in FetchNames /\ ~poisoned)
              => /\ bookings = pre[t].bookings
                 /\ \E o \in Orders(DOMAIN bookings) :
                      ret[t] = FetchResult(op[t], bookings, o)
                 /\ \A u \in Threads : pc[u] \notin GuardHeld

\* One thread is inside create with its booking inserted while the other
\* has called create and waits for the lock.
C7_Witness ==
    \E t, u \in Threads :
      /\ pc[t] = "save_write"
      /\ op[t].name = "create"
      /\ lockOwner = t
      /\ pc[u] = "create_lock"

\* Whether a stored booking is one the filtered fetch q asks for.
Asked(q, booking) ==
    CASE q.name = "fetch_by_customer_id" -> booking.customer_id = q.customer_id
      [] q.name = "fetch_by_room_type_id" -> booking.room_type_id = q.room_type_id
      [] q.name = "fetch_by_check_in_date" -> booking.check_in_date = q.date
      [] q.name = "fetch_all" -> TRUE

\* C8: with the lock healthy, fetch_by_id returns the booking stored under
\* the id, or None; fetch_all and the three filtered fetches return a list
\* holding every stored booking that matches (all of them for fetch_all)
\* exactly once and nothing else.
C8_FetchExact ==
    \A t \in Threads :
      (pc[t] = "done" /\ op[t].name \in FetchNames /\ ~poisoned)
        => IF op[t].name = "fetch_by_id"
           THEN ret[t] = Ret("opt", IF op[t].booking_id \in DOMAIN bookings
                                    THEN <<bookings[op[t].booking_id]>> ELSE <<>>)
           ELSE LET K == {k \in DOMAIN bookings : Asked(op[t], bookings[k])}
                    list == ret[t].val
                IN /\ ret[t].tag = "list"
                   /\ Len(list) = Cardinality(K)
                   /\ \A k \in K : \E i \in 1..Len(list) : list[i] = bookings[k]
                   /\ \A i \in 1..Len(list) : \E k \in K : list[i] = bookings[k]

\* fetch_by_room_type_id(3) has returned one booking from a store of two.
C8_Witness ==
    \E t \in Threads :
      /\ Returned(t, "fetch_by_room_type_id")
      /\ op[t].room_type_id = 3
      /\ Len(ret[t].val) = 1
      /\ Cardinality(DOMAIN bookings) = 2

\* C9: when save_snapshot returns false inside create or status, the change
\* made in memory stays: create returns Ok with the booking it stored,
\* status returns true with the status applied, and every later state of
\* the store holds each booking a create returned, saved or not.
C9_WriteFailureKept ==
    /\ \A i \in 1..Len(issued) : issued[i] \in DOMAIN bookings
    /\ \A t \in Threads :
      (pc[t] = "done" /\ loc[t].saved = "false")
        => /\ op[t].name = "create"
                => /\ ret[t] = Ret("Ok", <<loc[t].booking>>)
                   /\ bookings = Insert(pre[t].bookings, loc[t].next_id, loc[t].booking)
                   /\ loc[t].next_id \notin DOMAIN pre[t].bookings
           /\ op[t].name = "status"
                => /\ ret[t] = Ret("bool", <<TRUE>>)
                   /\ bookings[op[t].booking_id].status = Some(op[t].status)
                   /\ pre[t].bookings[op[t].booking_id].status = Some("Confirmed")

\* create has returned Ok although write_all failed and left a file that
\* does not decode.
C9_Witness ==
    \E t \in Threads :
      /\ Returned(t, "create")
      /\ loc[t].saved = "false"
      /\ ret[t].tag = "Ok"
      /\ file.exists
      /\ ~deserialize(file.content).ok
      /\ DOMAIN bookings = {U32(1), U32(2)}

\* C10: save_snapshot returns false whenever the encoding, File::create or
\* write_all fails, and returns true only when the file holds the whole
\* encoding of the collection it was given.
C10_SaveResult ==
    \A t \in Threads :
      (pc[t] \in {"create_return", "status_return"})
        => /\ loc[t].encoded = "err" => loc[t].saved = "false"
           /\ loc[t].saved = "true"
                => \E o \in Orders(DOMAIN bookings) :
                     file = FileOf(serialize(bookings, o))

\* The positions at which save_snapshot has returned to create or status.
SaveReturned == {"create_return", "status_return"}

\* The store a process would hold after starting on booking.dat as it is
\* now and reading it without an I/O error.
Reloaded == load_snapshot(file, TRUE)

\* C11: for every collection handed to save_snapshot, whatever order the
\* map is iterated in, the file written from its encoding loads at a
\* process start into a collection equal to it: the same ids, fields and
\* statuses.  In particular the file a save_snapshot call has just written
\* from its encoding loads into the store as it is at that point.
C11_RoundTrip ==
    /\ \A t \in Threads :
         pc[t] = "save_serialize"
           => \A o \in Orders(DOMAIN bookings) :
                LET loaded == load_snapshot(FileOf(serialize(bookings, o)), TRUE)
                IN loaded.ok /\ loaded.val = bookings
    /\ \A t \in Threads :
         (pc[t] \in SaveReturned /\ loc[t].encoded = "ok" /\ loc[t].saved = "true")
           => Reloaded.ok /\ Reloaded.val = bookings

\* save_snapshot has written a store of two bookings, one of them cancelled,
\* and the file loads into that store.
C11_Witness ==
    \E t \in Threads :
      /\ pc[t] = "create_return"
      /\ loc[t].saved = "true"
      /\ loc[t].encoded = "ok"
      /\ DOMAIN bookings = {U32(1), U32(2)}
      /\ bookings[U32(1)].status = Some("Cancelled")
      /\ Reloaded.ok
      /\ Reloaded.val = bookings

\* What an operation returns when it degrades.
Degraded(q) ==
    CASE q.name = "create" -> Ret("Err", <<>>)
      [] q.name = "status" -> Ret("bool", <<FALSE>>)
      [] q.name = "fetch_by_id" -> Ret("opt", None)
      [] q.name = "load_snapshot" -> Ret("Err", <<>>)
      [] OTHER -> Ret("list", <<>>)

\* C12: an operation that finds the lock poisoned does not panic: create
\* returns Err, status false, fetch_by_id None, fetch_all and the filtered
\* fetches an empty list, load_snapshot returns without a panic; and the
\* store and the file are as the operation found them.
C12_PoisonDegrades ==
    \A t \in Threads :
      (pc[t] = "done" /\ pre[t].poisoned)
        => /\ ret[t].tag # "panic"
           /\ op[t].name # "load_snapshot" => ret[t] = Degraded(op[t])
           /\ bookings = pre[t].bookings
           /\ file = pre[t].file

\* The step in which main finishes its startup.
Startup == phase = "boot" /\ phase' = "serving"

\* C13: the startup load happens once, before any request is served.  When
\* booking.dat exists, is read without an I/O error and decodes, the store
\* becomes the decoded collection; when it does not exist, cannot be read
\* or does not decode, the store stays empty, the process serves requests,
\* and the first create returns id 1.
C13_StartupLoad ==
    /\ [](phase = "boot" => (bookings = EmptyMap /\ \A t \in Threads : pc[t] = "idle"))
    /\ [][/\ phase = "serving" => (phase' = "serving" /\ booted' = booted)
          /\ Startup =>
                LET decoded == deserialize(file.content)
                    readOk == faults' = faults
                IN /\ bookings' = IF file.exists /\ readOk /\ decoded.ok
                                  THEN decoded.val ELSE EmptyMap
                   /\ booted' = bookings'
                   /\ file' = file]_vars
    /\ []((DOMAIN booted = {} /\ Len(issued) > 0) => issued[1] = U32(1))

\* The process started on a file that does not decode, and its first create
\* has returned id 1.
C13_Witness ==
    \E t \in Threads :
      /\ Returned(t, "create")
      /\ ret[t].tag = "Ok"
      /\ ret[t].val[1].booking_id = Some(U32(1))
      /\ issued = <<U32(1)>>
      /\ booted = EmptyMap
      /\ pre[t].file.exists
      /\ ~deserialize(pre[t].file.content).ok

\* The positions between a change of the map and the end of the
\* save_snapshot call that follows it.
Saving == {"save_serialize", "save_create", "save_write"}

\* C14: when the save_snapshot call of a create or a status has encoded the
\* collection and written it, booking.dat decodes to the store as it is at
\* the return of that operation; and while the save_snapshot call that
\* finished last is such a one and no operation is between its change and
\* the end of its save, booking.dat decodes to the store as it is, whatever
\* the interleaving of the threads, so the file is not older than the last
\* mutation that completed.
C14_WriteThrough ==
    /\ \A t \in Threads :
         (pc[t] \in SaveReturned \cup {"done"}
            /\ loc[t].encoded = "ok" /\ loc[t].saved = "true")
           => LET decoded == deserialize(file.content)
              IN file.exists /\ decoded.ok /\ decoded.val = bookings
    /\ (lastSave = "written" /\ \A t \in Threads : pc[t] \notin Saving)
         => LET decoded == deserialize(file.content)
            IN file.exists /\ decoded.ok /\ decoded.val = bookings

\* A status call on a store of two bookings has saved, and the file decodes
\* to the store with the new status.
C14_Witness ==
    \E t \in Threads :
      /\ Returned(t, "status")
      /\ op[t].status = "Complete"
      /\ loc[t].saved = "true"
      /\ loc[t].encoded = "ok"
      /\ lastSave = "written"
      /\ DOMAIN bookings = {U32(1), U32(2)}
      /\ deserialize(file.content).val = bookings
      /\ bookings[op[t].booking_id].status = Some("Complete")

\* C16: every booking in the store, created in this run or loaded at startup
\* from a snapshot the store wrote, has booking_id and status set, and its
\* booking_id is the key it is stored under; so a booking fetch_by_id(id)
\* returns has booking_id id.
C16_IdIsKey ==
    /\ \A k \in DOMAIN bookings :
         /\ bookings[k].booking_id = <<k>>
         /\ bookings[k].status # <<>>
         /\ bookings[k].status[1] \in Statuses
    /\ \A t \in Threads :
         (Returned(t, "fetch_by_id") /\ ret[t].val # <<>>)
           => ret[t].val[1].booking_id = <<op[t].booking_id>>

\* The store holds a booking loaded at startup, completed in an earlier run,
\* and one created in this run; fetch_by_id(2) has returned the latter.
C16_Witness ==
    \E t \in Threads :
      /\ Returned(t, "fetch_by_id")
      /\ op[t].booking_id = U32(2)
      /\ ret[t].val # <<>>
      /\ ret[t].val[1].customer_id = U32(4)
      /\ DOMAIN booted = {U32(1)}
      /\ DOMAIN bookings = {U32(1), U32(2)}
      /\ bookings[U32(1)].status = Some("Complete")

\* C15: once a save_snapshot call has written a whole collection, every
\* later start of the process, also one that follows the end of the process
\* or a failed write at any step inside a later save, finds a booking.dat
\* that exists and decodes to a collection of bookings the store held: never
\* an empty, partial or undecodable file.
C15_CrashConsistent ==
    (everSaved /\ phase = "boot")
      => /\ file.exists
         /\ deserialize(file.content).ok
         /\ DOMAIN deserialize(file.content).val # {}

\* A create has returned without an insert that replaced a booking: Ok with
\* an id the store did not hold, or Err with the store as it was.
NoOverwrite(t) ==
    \/ /\ ret[t].tag = "Ok"
       /\ ret[t].val[1].booking_id[1] \notin DOMAIN pre[t].bookings
       /\ \A k \in DOMAIN pre[t].bookings :
            k \in DOMAIN bookings /\ bookings[k] = pre[t].bookings[k]
    \/ /\ ret[t].tag = "Err"
       /\ bookings = pre[t].bookings

\* C17: for every store, one whose greatest id is u32::MAX included, create
\* assigns an id the store does not hold yet or inserts nothing; it never
\* replaces a stored booking and never leaves the Mutex poisoned.
C17_NoCollision ==
    /\ ~poisoned
    /\ \A t \in Threads : Returned(t, "create") => NoOverwrite(t)

\* The part of C17 about the ids alone, the poisoned lock left aside.
C17_ReleaseBuild ==
    \A t \in Threads : (Returned(t, "create") /\ ret[t].tag # "panic") => NoOverwrite(t)

\* The fields of a booking other than its status.
Identity(booking) ==
    <<booking.booking_id, booking.customer_id, booking.room_type_id,
      booking.check_in_date, booking.check_out_date>>

\* C18: while the process runs, a booking stored under an id stays stored
\* under it in every later state with the same booking_id, customer_id,
\* room_type_id, check_in_date and check_out_date; and a status call that
\* returns true has changed the status of its booking and nothing else in
\* the store.
C18_NeverRemoved ==
    /\ [][\A k \in DOMAIN bookings :
            /\ k \in DOMAIN bookings'
            /\ Identity(bookings'[k]) = Identity(bookings[k])]_vars
    /\ [](\A t \in Threads :
            (Returned(t, "status") /\ ret[t] = Ret("bool", <<TRUE>>))
              => /\ DOMAIN bookings = DOMAIN pre[t].bookings
                 /\ \A k \in DOMAIN bookings :
                      IF k = op[t].booking_id
                      THEN /\ Identity(bookings[k]) = Identity(pre[t].bookings[k])
                           /\ bookings[k].status = <<op[t].status>>
                      ELSE bookings[k] = pre[t].bookings[k])

\* status(2, Cancelled) has returned true on a store of two bookings, and
\* booking 1 and the other fields of booking 2 are as they were.
C18_Witness ==
    \E t \in Threads :
      /\ Returned(t, "status")
      /\ ret[t] = Ret("bool", <<TRUE>>)
      /\ op[t].booking_id = U32(2)
      /\ op[t].status = "Cancelled"
      /\ DOMAIN bookings = {U32(1), U32(2)}
      /\ bookings[U32(1)] = pre[t].bookings[U32(1)]
      /\ bookings[U32(2)].customer_id = U32(4)
      /\ pre[t].bookings[U32(2)].status = Some("Confirmed")

\* C19: a create that returns Ok after the process was started again
\* returns an id that no create of an earlier run of the process returned,
\* whatever snapshot writes failed before.
C19_NoReuseAcrossRestarts ==
    \A t \in Threads :
      (Returned(t, "create") /\ ret[t].tag = "Ok")
        => ret[t].val[1].booking_id[1] \notin earlier

\* Whether the fetch q finds nothing in the map m.
MatchesNothing(q, m) ==
    IF q.name = "fetch_by_id" THEN q.booking_id \notin DOMAIN m
    ELSE \A k \in DOMAIN m : ~Asked(q, m[k])

\* C20: no step of a fetch function changes the store or booking.dat, and
\* none enters save_snapshot; a fetch returns an Option or a list, never an
\* error, and one that matches nothing returns None (fetch_by_id) or an
\* empty list.
C20_FetchReadOnly ==
    /\ [][\A t \in Threads :
            (op'[t].name \in FetchNames /\ pc'[t] # pc[t])
              => /\ bookings' = bookings
                 /\ file' = file
                 /\ lastSave' = lastSave
                 /\ pc'[t] \in {"fetch_read", "done"}]_vars
    /\ [](\A t \in Threads :
            (pc[t] = "done" /\ op[t].name \in FetchNames)
              => /\ bookings = pre[t].bookings
                 /\ file = pre[t].file
                 /\ loc[t] = NoLocals
                 /\ ret[t].tag = (IF op[t].name = "fetch_by_id" THEN "opt" ELSE "list")
                 /\ MatchesNothing(op[t], bookings) => ret[t].val = <<>>)

\* fetch_by_check_in_date("2020-01-08") has returned an empty list from a
\* store of two bookings, with booking.dat as it was.
C20_Witness ==
    \E t \in Threads :
      /\ Returned(t, "fetch_by_check_in_date")
      /\ op[t].date = "2020-01-08"
      /\ ret[t] = Ret("list", <<>>)
      /\ DOMAIN bookings = {U32(1), U32(2)}
      /\ file = pre[t].file
      /\ file.exists

====
